---- MODULE Spec2Model ----
(***************************************************************************)
(* Model of gradient_texture_atlas.py: the palette loader, the layout      *)
(* arithmetic of process_hex_file, find_neighbors, create_gradient and     *)
(* the file loop of main.                                                  *)
(*                                                                         *)
(* A colour is a triple <<r, g, b>>.  A text line is a sequence of         *)
(* one-character strings, a file a sequence of lines.  A pasted image is   *)
(* a rectangle [x, y, w, h]; the raster content of a gradient is given by  *)
(* the operator GradientPixel.                                             *)
(***************************************************************************)
EXTENDS Integers, Sequences, FiniteSets

VARIABLES
    hex_files,      \* main: the files glob returned, each a sequence of lines
    file_idx,       \* main: position of the for loop over hex_files
    pc,             \* control position inside main / process_hex_file
    outcomes,       \* one entry per file processed to an outcome
    rgb_colors,     \* process_hex_file: the palette
    plan,           \* process_hex_file: the layout values (lines 93-134)
    i,              \* process_hex_file: the running loop index
    canvas,         \* process_hex_file: rectangles pasted so far
    call,           \* arguments and locals of the latest find_neighbors call
    gradient,       \* arguments of the latest create_gradient call
    pixels          \* create_gradient: the pixel buffer (row-major)

vars == <<hex_files, file_idx, pc, outcomes, rgb_colors, plan, i, canvas,
          call, gradient, pixels>>

-----------------------------------------------------------------------------
(* Bounds of the model *)

MaxFiles == 2
MaxLines == 2
MaxColors == 100
MaxPalette == 4
MaxNeighborPalette == 4
MaxNeighbors == 3
MaxMinDistance == 3
MaxGradientColors == 3
MaxDim == 5

-----------------------------------------------------------------------------
(* Program constants *)

canvas_width == 2048
canvas_height == 2048
main_gradient_width == 100
gradient_start_y == 600
num_gradients == 11
target_square_size == 100

Min(a, b) == IF a < b THEN a ELSE b

\* int(x) of a rational n/d with d > 0: truncation toward zero
TruncDiv(n, d) == IF n >= 0 THEN n \div d ELSE -((-n) \div d)

\* math.ceil(a / b) for a >= 0, b > 0
CeilDiv(a, b) == (a + b - 1) \div b

-----------------------------------------------------------------------------
(* Palette loader: lines 7-9 and 80-84 *)

HexDigits == {"0", "8", "f"}
Whitespace == {" "}

HexVal(c) == CASE c = "0" -> 0 [] c = "8" -> 8 [] c = "f" -> 15 [] OTHER -> 0

RECURSIVE LStrip(_)
LStrip(s) == IF s # <<>> /\ Head(s) \in Whitespace THEN LStrip(Tail(s)) ELSE s

RECURSIVE RStrip(_)
RStrip(s) ==
    IF s # <<>> /\ s[Len(s)] \in Whitespace
    THEN RStrip(SubSeq(s, 1, Len(s) - 1)) ELSE s

\* str.strip()
Strip(s) == RStrip(LStrip(s))

\* int(s, 16) accepts s when, with surrounding whitespace removed, it is a
\* non-empty run of hexadecimal digits; otherwise it raises ValueError
IntParses(s) ==
    /\ Strip(s) # <<>>
    /\ \A k \in 1..Len(Strip(s)) : Strip(s)[k] \in HexDigits

RECURSIVE IntBase16(_)
IntBase16(s) ==
    LET t == Strip(s) IN
    IF t = <<>> THEN 0
    ELSE 16 * IntBase16(SubSeq(t, 1, Len(t) - 1)) + HexVal(t[Len(t)])

\* hex_color[i:i+2] for i in (0, 2, 4)
Slice2(hex_color, k) == SubSeq(hex_color, k + 1, k + 2)

hex_to_rgb(hex_color) ==
    <<IntBase16(Slice2(hex_color, 0)),
      IntBase16(Slice2(hex_color, 2)),
      IntBase16(Slice2(hex_color, 4))>>

\* hex_to_rgb raises ValueError on this string
HexRaises(hex_color) ==
    \E k \in {0, 2, 4} : ~IntParses(Slice2(hex_color, k))

NotEmpty(s) == s # <<>>
SixChars(s) == Len(s) = 6

\* line 81: [line.strip() for line in f if line.strip()]
StripLines(lines) ==
    SelectSeq([k \in 1..Len(lines) |-> Strip(lines[k])], NotEmpty)

\* the strings the comprehension of line 84 converts
SixLong(hex_colors) == SelectSeq(hex_colors, SixChars)

LoadRaises(lines) ==
    \E k \in 1..Len(SixLong(StripLines(lines))) :
        HexRaises(SixLong(StripLines(lines))[k])

LoadPalette(lines) ==
    [k \in 1..Len(SixLong(StripLines(lines))) |->
        hex_to_rgb(SixLong(StripLines(lines))[k])]

-----------------------------------------------------------------------------
(* Layout arithmetic of process_hex_file: lines 93-134 *)

available_gradient_height == canvas_height - gradient_start_y
gradient_height == available_gradient_height \div 2
total_content_width == canvas_width - main_gradient_width
gradient_width == total_content_width \div (num_gradients + 1)
total_gradient_width == gradient_width * (num_gradients + 1)
max_cols == total_gradient_width \div target_square_size

\* lines 116-120
GridCols(num_colors) == Min(max_cols, num_colors)


\* GridRows with the quotient rounded down
GridRows_Floor(num_colors) ==
    IF GridCols(num_colors) >= num_colors THEN 1
    ELSE num_colors \div GridCols(num_colors)

\* lines 119-123
GridRows(num_colors) ==
    IF GridCols(num_colors) >= num_colors THEN 1
    ELSE CeilDiv(num_colors, GridCols(num_colors))

\* line 127
SquareWidth(num_colors) == total_gradient_width \div GridCols(num_colors)

\* line 128
RemainingWidthPerRow(num_colors) == total_gradient_width % GridCols(num_colors)

\* line 131
SquareHeight(num_colors) ==
    Min(SquareWidth(num_colors), gradient_start_y \div GridRows(num_colors))


\* the main gradient kept at its nominal width
ActualMainGradientWidth_Nominal == main_gradient_width

\* line 160
ActualMainGradientWidth == canvas_width - total_gradient_width

LayoutPlan(num_colors) ==
    [ num_colors |-> num_colors,
      main_gradient_width |-> main_gradient_width,
      gradient_width |-> gradient_width,
      gradient_height |-> gradient_height,
      total_gradient_width |-> total_gradient_width,
      grid_cols |-> GridCols(num_colors),
      grid_rows |-> GridRows(num_colors),
      square_width |-> SquareWidth(num_colors),
      remaining_width_per_row |-> RemainingWidthPerRow(num_colors),
      square_height |-> SquareHeight(num_colors),
      grid_height |-> GridRows(num_colors) * SquareHeight(num_colors),
      actual_main_gradient_width |-> ActualMainGradientWidth ]

NoPlan == [ num_colors |-> 0 ]


\* SquareX without the shift of line 153 for the columns after the wider ones
SquareX_NoShift(p, col) ==
    IF col < p.remaining_width_per_row
    THEN col * p.square_width + col
    ELSE col * p.square_width

\* lines 142-153: x of the square in column col
SquareX(p, col) ==
    IF col < p.remaining_width_per_row
    THEN col * p.square_width + col
    ELSE col * p.square_width + p.remaining_width_per_row

\* lines 146-148: current_square_width of the square in column col
CurrentSquareWidth(p, col) ==
    IF col < p.remaining_width_per_row
    THEN p.square_width + 1 ELSE p.square_width

Rect(kind, x, y, w, h) == [kind |-> kind, x |-> x, y |-> y, w |-> w, h |-> h]

\* lines 137-157: the rectangle of swatch number n (0-based)
SquareRect(p, n) ==
    Rect("square",
         SquareX(p, n % p.grid_cols),
         (n \div p.grid_cols) * p.square_height,
         CurrentSquareWidth(p, n % p.grid_cols),
         p.square_height)

\* lines 160-162
MainGradientRect(p) ==
    Rect("main", p.total_gradient_width, 0,
         p.actual_main_gradient_width, canvas_height)

\* lines 166-167
FirstGradientRect(p) ==
    Rect("first", 0, gradient_start_y, p.gradient_width, p.gradient_height)

\* lines 180-181
RowOneRect(p, n) ==
    Rect("row_one", (n + 1) * p.gradient_width, gradient_start_y,
         p.gradient_width, p.gradient_height)

\* lines 189-190
RowTwoRect(p, n) ==
    Rect("row_two", n * p.gradient_width, gradient_start_y + p.gradient_height,
         p.gradient_width, p.gradient_height)

-----------------------------------------------------------------------------
(* find_neighbors: lines 11-27 *)

\* The square of rgb_distance.  math.sqrt is strictly increasing on the
\* integers 0 .. 3 * 255^2 (distinct integers of that size have distinct
\* double square roots), so comparing squares orders the tuples of line 17
\* exactly as comparing the floating-point distances does.
rgb_distance(color1, color2) ==
    (color1[1] - color2[1]) * (color1[1] - color2[1])
  + (color1[2] - color2[2]) * (color1[2] - color2[2])
  + (color1[3] - color2[3]) * (color1[3] - color2[3])

\* tuple comparison of two colours
ColorLess(a, b) ==
    \/ a[1] < b[1]
    \/ a[1] = b[1] /\ a[2] < b[2]
    \/ a[1] = b[1] /\ a[2] = b[2] /\ a[3] < b[3]

\* tuple comparison of two (distance, colour) pairs: what list.sort uses
EntryLess(a, b) ==
    \/ a.d < b.d
    \/ a.d = b.d /\ ColorLess(a.color, b.color)


\* Distances without the test color != target_color
Distances_NoFilter(target_color, colors) ==
    [k \in 1..Len(colors) |->
        [d |-> rgb_distance(target_color, colors[k]), color |-> colors[k]]]

\* line 17: the (distance, colour) pairs of the colours that differ from target
Distances(target_color, colors) ==
    LET Differs(color) == color # target_color
        others == SelectSeq(colors, Differs)
    IN [k \in 1..Len(others) |->
          [d |-> rgb_distance(target_color, others[k]), color |-> others[k]]]

\* e placed after the last element of the sorted list s that is not greater
RECURSIVE Insert(_, _)
Insert(e, s) ==
    IF s = <<>> THEN <<e>>
    ELSE IF EntryLess(e, Head(s)) THEN <<e>> \o s
         ELSE <<Head(s)>> \o Insert(e, Tail(s))


\* e placed after the last element of s whose distance is not greater
RECURSIVE InsertByDistance(_, _)
InsertByDistance(e, s) ==
    IF s = <<>> THEN <<e>>
    ELSE IF e.d < Head(s).d THEN <<e>> \o s
         ELSE <<Head(s)>> \o InsertByDistance(e, Tail(s))

\* a stable sort on the distance alone: equal distances keep the list order
RECURSIVE SortDistances_ByDistanceOnly(_)
SortDistances_ByDistanceOnly(entries) ==
    IF entries = <<>> THEN <<>>
    ELSE InsertByDistance(entries[Len(entries)],
             SortDistances_ByDistanceOnly(SubSeq(entries, 1, Len(entries) - 1)))

\* line 18: distances.sort()
RECURSIVE SortDistances(_)
SortDistances(entries) ==
    IF entries = <<>> THEN <<>>
    ELSE Insert(entries[Len(entries)],
                SortDistances(SubSeq(entries, 1, Len(entries) - 1)))

\* lines 21-25: distances[i][1] for i in range(start_index, min(...))
Selected(distances, max_neighbors, min_distance) ==
    LET stop == Min(min_distance + max_neighbors, Len(distances)) IN
    IF stop <= min_distance THEN <<>>
    ELSE [k \in 1..(stop - min_distance) |-> distances[min_distance + k].color]

\* the frame of a call of find_neighbors, with its result in selected
find_neighbors(target_color, colors, max_neighbors, min_distance) ==
    LET distances == SortDistances(Distances(target_color, colors)) IN
    [ target_color |-> target_color,
      colors |-> colors,
      max_neighbors |-> max_neighbors,
      min_distance |-> min_distance,
      distances |-> distances,
      selected |-> Selected(distances, max_neighbors, min_distance) ]

NoCall == [ selected |-> <<>> ]

-----------------------------------------------------------------------------
(* get_lightest_darkest: lines 29-36 *)

\* 1000 times the luminance of line 33
luminance(color) == 299 * color[1] + 587 * color[2] + 114 * color[3]

\* sorted_colors[0] of a stable sort: the first colour of least luminance
Darkest(colors) ==
    LET k == CHOOSE k \in 1..Len(colors) :
                 /\ \A j \in 1..Len(colors) :
                        luminance(colors[k]) <= luminance(colors[j])
                 /\ \A j \in 1..(k - 1) :
                        luminance(colors[j]) > luminance(colors[k])
    IN colors[k]

\* sorted_colors[-1] of a stable sort: the last colour of greatest luminance
Lightest(colors) ==
    LET k == CHOOSE k \in 1..Len(colors) :
                 /\ \A j \in 1..Len(colors) :
                        luminance(colors[k]) >= luminance(colors[j])
                 /\ \A j \in (k + 1)..Len(colors) :
                        luminance(colors[j]) < luminance(colors[k])
    IN colors[k]

-----------------------------------------------------------------------------
(* create_gradient: lines 38-75.  A call is the record g of its arguments  *)
(* colors, width, height and vertical.  pos and local_pos are kept as      *)
(* exact rationals over the denominator PosDen(g).  The code computes them *)
(* in doubles, which agrees with the exact value wherever pos is 0 or 1    *)
(* and wherever the two colours of the segment are equal; at other pixels  *)
(* a channel whose exact value is an integer can come out one lower.       *)

Gradient(colors, width, height, vertical) ==
    [ colors |-> colors, width |-> width, height |-> height,
      vertical |-> vertical ]

NoGradient == [ colors |-> <<>>, width |-> 0, height |-> 0, vertical |-> TRUE ]

AxisLen(g) == IF g.vertical THEN g.height ELSE g.width
AxisCoord(g, x, y) == IF g.vertical THEN y ELSE x


\* the position taken over the length of the axis
PosDen_AxisLen(g) == IF AxisLen(g) > 1 THEN AxisLen(g) ELSE 1

\* lines 51-54: pos = PosNum / PosDen
PosDen(g) == IF AxisLen(g) > 1 THEN AxisLen(g) - 1 ELSE 1
PosNum(g, x, y) == IF AxisLen(g) > 1 THEN AxisCoord(g, x, y) ELSE 0

\* lines 57-59: int(pos / segment_size), clamped
Segment(g, x, y) ==
    Min((PosNum(g, x, y) * (Len(g.colors) - 1)) \div PosDen(g),
        Len(g.colors) - 2)


\* local_pos without the start of the segment taken off
LocalPosNum_Global(g, x, y) == PosNum(g, x, y) * (Len(g.colors) - 1)

\* line 62: local_pos = LocalPosNum / PosDen
LocalPosNum(g, x, y) ==
    PosNum(g, x, y) * (Len(g.colors) - 1) - Segment(g, x, y) * PosDen(g)


\* Channel with color2 weighted in without taking color1 out
Channel_NoDifference(g, x, y, c) ==
    LET color1 == g.colors[Segment(g, x, y) + 1]
        color2 == g.colors[Segment(g, x, y) + 2]
    IN TruncDiv(color1[c] * PosDen(g) + color2[c] * LocalPosNum(g, x, y),
                PosDen(g))

\* lines 68-70: int(color1[c] + (color2[c] - color1[c]) * local_pos)
Channel(g, x, y, c) ==
    LET color1 == g.colors[Segment(g, x, y) + 1]
        color2 == g.colors[Segment(g, x, y) + 2]
    IN TruncDiv(color1[c] * PosDen(g)
                  + (color2[c] - color1[c]) * LocalPosNum(g, x, y),
                PosDen(g))

\* lines 43-72: the pixel at column x of row y
GradientPixel(g, x, y) ==
    IF Len(g.colors) = 1 THEN g.colors[1]
    ELSE <<Channel(g, x, y, 1), Channel(g, x, y, 2), Channel(g, x, y, 3)>>

\* the row-major buffer handed to putdata
PixelBuffer(g) ==
    [n \in 1..(g.width * g.height) |->
        GradientPixel(g, (n - 1) % g.width, (n - 1) \div g.width)]

-----------------------------------------------------------------------------
(* main and process_hex_file as a state machine *)

\* main, lines 200-204
Main ==
    /\ pc = "main"
    /\ pc' = IF hex_files = <<>> THEN "done" ELSE "loop"
    /\ UNCHANGED <<hex_files, file_idx, outcomes, rgb_colors, plan, i, canvas,
                   call, gradient, pixels>>

\* main, lines 206-208: the for loop takes the next file or ends
NextFile ==
    /\ pc = "loop"
    /\ pc' = IF file_idx > Len(hex_files) THEN "done" ELSE "read"
    /\ UNCHANGED <<hex_files, file_idx, outcomes, rgb_colors, plan, i, canvas,
                   call, gradient, pixels>>

\* process_hex_file, lines 80-134: read the palette and plan the layout.
\* A ValueError of hex_to_rgb is caught nowhere and ends the run; an empty
\* palette returns to the loop of main.
ReadPalette ==
    /\ pc = "read"
    /\ IF LoadRaises(hex_files[file_idx])
       THEN /\ pc' = "aborted"
            /\ UNCHANGED <<file_idx, outcomes, rgb_colors, plan, canvas>>
       ELSE IF LoadPalette(hex_files[file_idx]) = <<>>
       THEN /\ pc' = "loop"
            /\ outcomes' = Append(outcomes, "skipped")
            /\ file_idx' = file_idx + 1
            /\ UNCHANGED <<rgb_colors, plan, canvas>>
       ELSE /\ pc' = "squares"
            /\ rgb_colors' = LoadPalette(hex_files[file_idx])
            /\ plan' = LayoutPlan(Len(LoadPalette(hex_files[file_idx])))
            /\ canvas' = <<>>
            /\ UNCHANGED <<file_idx, outcomes>>
    /\ i' = 0
    /\ gradient' = NoGradient
    /\ UNCHANGED <<hex_files, call, pixels>>

\* lines 137-157: one turn of the loop that pastes the swatches
PasteSquare ==
    /\ pc = "squares"
    /\ canvas' = Append(canvas, SquareRect(plan, i))
    /\ i' = IF i + 1 < plan.num_colors THEN i + 1 ELSE 0
    /\ pc' = IF i + 1 < plan.num_colors THEN "squares" ELSE "main_gradient"
    /\ UNCHANGED <<hex_files, file_idx, outcomes, rgb_colors, plan, call,
                   gradient, pixels>>

\* lines 160-162
PasteMainGradient ==
    /\ pc = "main_gradient"
    /\ gradient' = Gradient(rgb_colors, plan.actual_main_gradient_width,
                            canvas_height, TRUE)
    /\ canvas' = Append(canvas, MainGradientRect(plan))
    /\ pc' = "first_gradient"
    /\ UNCHANGED <<hex_files, file_idx, outcomes, rgb_colors, plan, i, call,
                   pixels>>

\* lines 165-167
PasteFirstGradient ==
    /\ pc = "first_gradient"
    /\ gradient' = Gradient(<<Lightest(rgb_colors), Darkest(rgb_colors)>>,
                            plan.gradient_width, plan.gradient_height, TRUE)
    /\ canvas' = Append(canvas, FirstGradientRect(plan))
    /\ pc' = "row_one"
    /\ UNCHANGED <<hex_files, file_idx, outcomes, rgb_colors, plan, i, call,
                   pixels>>

\* random.choice(colors) returns one of the values of the list
Choices(colors) == { colors[k] : k \in 1..Len(colors) }

\* line 176: the bounds of random.randint(1, min(2, len(neighbors)))
TakeChoices(neighbors) ==
    IF neighbors # <<>> THEN 1..Min(2, Len(neighbors)) ELSE {1}

\* lines 175-178: the colours of a row-one gradient
RowOneColors(start_color, neighbors, take) ==
    IF neighbors # <<>>
    THEN <<start_color>> \o SubSeq(neighbors, 1, take)
    ELSE <<start_color>>

\* lines 170-181: one turn of the first loop of bottom gradients
RowOneGradient ==
    /\ pc = "row_one"
    /\ \E start_color \in Choices(rgb_colors), max_neighbors \in 1..3,
          min_distance \in 2..4 :
          LET neighbors == find_neighbors(start_color, rgb_colors,
                                          max_neighbors, min_distance).selected
          IN \E take \in TakeChoices(neighbors) :
                gradient' = Gradient(RowOneColors(start_color, neighbors, take),
                                     plan.gradient_width, plan.gradient_height,
                                     TRUE)
    /\ canvas' = Append(canvas, RowOneRect(plan, i))
    /\ i' = IF i + 1 < num_gradients THEN i + 1 ELSE 0
    /\ pc' = IF i + 1 < num_gradients THEN "row_one" ELSE "row_two"
    /\ UNCHANGED <<hex_files, file_idx, outcomes, rgb_colors, plan, call,
                   pixels>>

\* the number of positions of seq that hold the value v
Count(v, seq) == Cardinality({ j \in 1..Len(seq) : seq[j] = v })


\* sampling with replacement
Samples_WithReplacement(colors, k) == [1..k -> Choices(colors)]

\* random.sample(colors, k): the values at k distinct positions of colors,
\* in any order; that is, the lists of length k that use no value more often
\* than colors holds it
Samples(colors, k) ==
    { g \in [1..k -> Choices(colors)] :
        \A v \in Choices(colors) : Count(v, g) <= Count(v, colors) }

\* lines 186-187
RowTwoColors(colors) ==
    UNION { Samples(colors, Min(num_random_colors, Len(colors))) :
              num_random_colors \in 2..3 }

\* lines 184-190: one turn of the second loop of bottom gradients
RowTwoGradient ==
    /\ pc = "row_two"
    /\ \E gradient_colors \in RowTwoColors(rgb_colors) :
          gradient' = Gradient(gradient_colors, plan.gradient_width,
                               plan.gradient_height, TRUE)
    /\ canvas' = Append(canvas, RowTwoRect(plan, i))
    /\ i' = IF i + 1 < num_gradients + 1 THEN i + 1 ELSE 0
    /\ pc' = IF i + 1 < num_gradients + 1 THEN "row_two" ELSE "save"
    /\ UNCHANGED <<hex_files, file_idx, outcomes, rgb_colors, plan, call,
                   pixels>>

\* lines 193-196, and the return to the loop of main
Save ==
    /\ pc = "save"
    /\ outcomes' = Append(outcomes, "written")
    /\ file_idx' = file_idx + 1
    /\ pc' = "loop"
    /\ UNCHANGED <<hex_files, rgb_colors, plan, i, canvas, call, gradient,
                   pixels>>

Next ==
    \/ Main
    \/ NextFile
    \/ ReadPalette
    \/ PasteSquare
    \/ PasteMainGradient
    \/ PasteFirstGradient
    \/ RowOneGradient
    \/ RowTwoGradient
    \/ Save

-----------------------------------------------------------------------------
(* Inputs *)

BlankLine == <<" ">>
ShortLine == <<"f", "f", "0">>
RedLine == <<"f", "f", "0", "0", "0", "0">>
SpacedLine == <<" ", "0", "0", " ", "0", "8", "f", " ">>
JunkLine == <<"g", "g", "g", "g", "g", "g">>

InputLines == {BlankLine, ShortLine, RedLine, SpacedLine, JunkLine}

PaletteLines ==
    << RedLine,
       <<"0", "0", "0", "0", "0", "0">>,
       <<" ", "f", "f", "0", "0", "0", "0">>,
       <<"f", "f", "f", "f", "f", "f">>,
       <<"0", "0", "f", "f", "0", "0">>,
       <<"0", "0", "0", "0", "f", "f">>,
       <<"8", "0", "8", "0", "8", "0">> >>

SeqsUpTo(S, n) == UNION { [1..k -> S] : k \in 0..n }

InputFiles ==
    SeqsUpTo(InputLines, MaxLines)
    \cup { SubSeq(PaletteLines, 1, n) :
             n \in 1..Min(MaxPalette, Len(PaletteLines)) }

\* a file of n equal colour lines
UniformFile(n) == [k \in 1..n |-> PaletteLines[2]]

ProcessInit(files) ==
    /\ hex_files \in files
    /\ file_idx = 1
    /\ pc = "main"
    /\ outcomes = <<>>
    /\ rgb_colors = <<>>
    /\ plan = NoPlan
    /\ i = 0
    /\ canvas = <<>>
    /\ call = NoCall
    /\ gradient = NoGradient
    /\ pixels = <<>>

\* any files of the input universe
Init == ProcessInit(SeqsUpTo(InputFiles, MaxFiles))

Spec == Init /\ [][Next]_vars

\* one file of up to MaxColors equal colour lines
InitLayout == ProcessInit({ <<UniformFile(n)>> : n \in 0..MaxColors })

SpecLayout == InitLayout /\ [][Next]_vars

\* one file whose palette has exactly one colour
SingleColourFiles ==
    { <<PaletteLines[k]>> : k \in 1..Len(PaletteLines) }
    \cup { <<BlankLine, SpacedLine, ShortLine>> }

InitSingle == ProcessInit({ <<f>> : f \in SingleColourFiles })

SpecSingle == InitSingle /\ [][Next]_vars

\* one file of the input universe
InitPalette == ProcessInit({ <<f>> : f \in InputFiles })

SpecPalette == InitPalette /\ [][Next]_vars

-----------------------------------------------------------------------------
(* find_neighbors on its own: the arguments are drawn from bounded sets *)

NeighborColors == { <<0, 0, 0>>, <<255, 0, 0>>, <<0, 255, 0>>, <<255, 255, 255>> }

InitNeighbors ==
    /\ \E target_color \in NeighborColors,
          colors \in SeqsUpTo(NeighborColors, MaxNeighborPalette),
          max_neighbors \in 0..MaxNeighbors,
          min_distance \in 0..MaxMinDistance :
          call = [ target_color |-> target_color, colors |-> colors,
                   max_neighbors |-> max_neighbors,
                   min_distance |-> min_distance,
                   distances |-> <<>>, selected |-> <<>> ]
    /\ pc = "find_neighbors"
    /\ hex_files = <<>> /\ file_idx = 1 /\ outcomes = <<>>
    /\ rgb_colors = <<>> /\ plan = NoPlan /\ i = 0 /\ canvas = <<>>
    /\ gradient = NoGradient /\ pixels = <<>>

\* lines 15-27
FindNeighbors ==
    /\ pc = "find_neighbors"
    /\ call' = find_neighbors(call.target_color, call.colors,
                              call.max_neighbors, call.min_distance)
    /\ pc' = "returned"
    /\ UNCHANGED <<hex_files, file_idx, outcomes, rgb_colors, plan, i, canvas,
                   gradient, pixels>>

NextNeighbors == FindNeighbors

SpecNeighbors == InitNeighbors /\ [][NextNeighbors]_vars

-----------------------------------------------------------------------------
(* create_gradient on its own: the arguments are drawn from bounded sets *)

GradientColors ==
    { <<0, 0, 0>>, <<255, 255, 255>>, <<255, 0, 0>>, <<10, 200, 77>> }

InitGradient ==
    /\ \E colors \in SeqsUpTo(GradientColors, MaxGradientColors),
          width \in 1..MaxDim, height \in 1..MaxDim, vertical \in BOOLEAN :
          /\ colors # <<>>
          /\ gradient = Gradient(colors, width, height, vertical)
    /\ pixels = <<>>
    /\ pc = "create_gradient"
    /\ hex_files = <<>> /\ file_idx = 1 /\ outcomes = <<>>
    /\ rgb_colors = <<>> /\ plan = NoPlan /\ i = 0 /\ canvas = <<>>
    /\ call = NoCall

\* lines 38-75
CreateGradient ==
    /\ pc = "create_gradient"
    /\ pixels' = PixelBuffer(gradient)
    /\ pc' = "returned"
    /\ UNCHANGED <<hex_files, file_idx, outcomes, rgb_colors, plan, i, canvas,
                   call, gradient>>

NextGradient == CreateGradient

SpecGradient == InitGradient /\ [][NextGradient]_vars

-----------------------------------------------------------------------------
(* Properties of the layout *)

Planned == plan.num_colors > 0

RECURSIVE SumWidths(_, _)
\* the widths of the columns 0 .. n-1 of a row, added up
SumWidths(p, n) ==
    IF n = 0 THEN 0 ELSE SumWidths(p, n - 1) + CurrentSquareWidth(p, n - 1)

Squares == { n \in 1..Len(canvas) : canvas[n].kind = "square" }

\* C1: for every palette size, the first (total_gradient_width mod grid_cols)
\* columns are square_width + 1 wide and the others square_width, the widths
\* of a row add up to total_gradient_width, every column starts where the
\* columns before it end, and the swatches are pasted at these places.
C1_RowTilesExactly ==
    Planned =>
        /\ SumWidths(plan, plan.grid_cols) = plan.total_gradient_width
        /\ \A col \in 0..(plan.grid_cols - 1) :
              /\ CurrentSquareWidth(plan, col) =
                    IF col < plan.total_gradient_width % plan.grid_cols
                    THEN plan.square_width + 1 ELSE plan.square_width
              /\ SquareX(plan, col) = SumWidths(plan, col)
        /\ \A n \in Squares :
              /\ canvas[n].x = SumWidths(plan, (n - 1) % plan.grid_cols)
              /\ canvas[n].x + canvas[n].w
                    = SumWidths(plan, ((n - 1) % plan.grid_cols) + 1)

\* all swatches of a palette of more than one row are pasted, and the row
\* width leaves a remainder
C1_Witness ==
    /\ pc = "main_gradient"
    /\ plan.grid_rows >= 2
    /\ plan.remaining_width_per_row > 0
    /\ Cardinality(Squares) = plan.num_colors

\* C2 as stated: the nominal main_gradient_width and total_gradient_width
\* add up to the canvas width.
C2_NominalWidthFillsCanvas ==
    Planned => plan.main_gradient_width + plan.total_gradient_width = canvas_width

\* C2 amended: the width the main gradient is drawn with
\* (actual_main_gradient_width) and total_gradient_width add up to the canvas
\* width, and the main gradient is pasted from total_gradient_width to the
\* right edge.
C2_ActualWidthFillsCanvas ==
    Planned =>
        /\ plan.actual_main_gradient_width + plan.total_gradient_width
              = canvas_width
        /\ \A n \in 1..Len(canvas) :
              canvas[n].kind = "main" =>
                  /\ canvas[n].x = plan.total_gradient_width
                  /\ canvas[n].x + canvas[n].w = canvas_width
                  /\ pc = "first_gradient" => gradient.width = canvas[n].w

C2_Witness ==
    /\ pc = "first_gradient"
    /\ canvas[Len(canvas)].kind = "main"
    /\ gradient.width > plan.main_gradient_width

Overlap(a, b) ==
    /\ a.w > 0 /\ a.h > 0 /\ b.w > 0 /\ b.h > 0
    /\ a.x < b.x + b.w /\ b.x < a.x + a.w
    /\ a.y < b.y + b.h /\ b.y < a.y + a.h

Inside(r, x0, y0, x1, y1) ==
    /\ r.w >= 0 /\ r.h >= 0
    /\ x0 <= r.x /\ r.x + r.w <= x1
    /\ y0 <= r.y /\ r.y + r.h <= y1

RECURSIVE Area(_)
\* the area of a list of rectangles, added up
Area(rects) ==
    IF rects = <<>> THEN 0
    ELSE Head(rects).w * Head(rects).h + Area(Tail(rects))

IsBottom(r) == r.kind \in {"first", "row_one", "row_two"}

Bottom == {"first", "row_one", "row_two"}

\* C9: every pasted rectangle lies inside the canvas and no two overlap; the
\* grid has a cell for every colour and fits the top band; the swatches lie
\* in the top band left of total_gradient_width, the bottom gradients tile
\* the band below it exactly, and the main gradient fills the strip right
\* of total_gradient_width over the full height.
C9_PastedRectanglesDisjoint ==
    Planned =>
        /\ plan.grid_cols * plan.grid_rows >= plan.num_colors
        /\ plan.grid_rows * plan.square_height <= gradient_start_y
        /\ \A n \in 1..Len(canvas) :
              /\ Inside(canvas[n], 0, 0, canvas_width, canvas_height)
              /\ canvas[n].kind = "square" =>
                    Inside(canvas[n], 0, 0, plan.total_gradient_width,
                           gradient_start_y)
              /\ canvas[n].kind \in Bottom =>
                    Inside(canvas[n], 0, gradient_start_y,
                           plan.total_gradient_width, canvas_height)
              /\ canvas[n].kind = "main" =>
                    canvas[n] = Rect("main", plan.total_gradient_width, 0,
                                     canvas_width - plan.total_gradient_width,
                                     canvas_height)
        /\ \A m, n \in 1..Len(canvas) :
              m < n => ~Overlap(canvas[m], canvas[n])
        /\ pc = "save" =>
              /\ Cardinality(Squares) = plan.num_colors
              /\ Cardinality({ n \in 1..Len(canvas) :
                                 canvas[n].kind \in Bottom })
                    = 2 * (num_gradients + 1)
              /\ Area(SelectSeq(canvas, IsBottom))
                    = plan.total_gradient_width
                        * (canvas_height - gradient_start_y)

\* a finished canvas whose grid has several rows, the last one not full, the
\* height of the rows cut down to fit the top band
C9_Witness ==
    /\ pc = "save"
    /\ plan.grid_rows >= 3
    /\ plan.square_height < plan.square_width
    /\ plan.num_colors % plan.grid_cols # 0
    /\ Len(canvas) = plan.num_colors + 2 * (num_gradients + 1) + 1

-----------------------------------------------------------------------------
(* Properties of the run over the files *)

\* C3: when main ends, every file it found has been processed to an outcome
\* (an atlas written, or the file skipped), whatever the lines of the files.
C3_EveryFileReachesAnOutcome ==
    pc \in {"done", "aborted"} =>
        /\ Len(outcomes) = Len(hex_files)
        /\ \A n \in 1..Len(outcomes) : outcomes[n] \in {"written", "skipped"}

-----------------------------------------------------------------------------
(* Properties of the gradients of process_hex_file *)

GradientDrawn == gradient.colors # <<>>

AllPixels(g, color) ==
    \A y \in 0..(g.height - 1) : \A x \in 0..(g.width - 1) :
        GradientPixel(g, x, y) = color

\* C5: with a palette of one colour C the atlas is written, no gradient
\* divides by zero (a gradient of several colours has an axis denominator
\* and a segment count of at least 1), and every pixel of every gradient
\* equals C.
C5_SingleColourConstant ==
    plan.num_colors = 1 =>
        /\ pc # "aborted"
        /\ pc = "done" => outcomes = <<"written">>
        /\ GradientDrawn =>
              /\ Len(gradient.colors) > 1 =>
                    PosDen(gradient) >= 1 /\ Len(gradient.colors) - 1 >= 1
              /\ gradient.width >= 1 /\ gradient.height >= 1
              /\ AllPixels(gradient, rgb_colors[1])

\* the lightest-to-darkest gradient of a one-colour palette has been drawn
C5_Witness ==
    /\ plan.num_colors = 1
    /\ pc = "row_one" /\ i = 0
    /\ Len(gradient.colors) = 2
    /\ rgb_colors[1] # <<0, 0, 0>>

RowTwoDrawn == (pc = "row_two" /\ i > 0) \/ pc = "save"

NoRepeats(seq) == \A a, b \in 1..Len(seq) : a # b => seq[a] # seq[b]

\* C6 as stated: every row-two gradient has 2 or 3 colours, none repeated.
C6_TwoOrThreeDistinct ==
    RowTwoDrawn =>
        /\ Len(gradient.colors) \in {2, 3}
        /\ NoRepeats(gradient.colors)

\* C6 amended: every row-two gradient is built from min(k, N) palette
\* entries, k in {2, 3}, taken from pairwise distinct positions of the
\* palette: 2 or 3 colours when N >= 2 and one when N = 1, with no value
\* repeated when the palette holds no value twice.
C6_SampleOfDistinctPositions ==
    RowTwoDrawn =>
        /\ \E k \in 2..3 : Len(gradient.colors) = Min(k, Len(rgb_colors))
        /\ \E idx \in [1..Len(gradient.colors) -> 1..Len(rgb_colors)] :
              /\ NoRepeats(idx)
              /\ \A j \in 1..Len(gradient.colors) :
                    gradient.colors[j] = rgb_colors[idx[j]]
        /\ Len(rgb_colors) >= 2 => Len(gradient.colors) \in {2, 3}
        /\ Len(rgb_colors) = 1 => Len(gradient.colors) = 1
        /\ NoRepeats(rgb_colors) => NoRepeats(gradient.colors)

\* a row-two gradient of three colours, two of them equal by value
C6_Witness ==
    /\ RowTwoDrawn
    /\ Len(gradient.colors) = 3
    /\ ~NoRepeats(gradient.colors)

-----------------------------------------------------------------------------
(* Properties of find_neighbors *)

Returned == pc = "returned"

InSeq(v, seq) == \E k \in 1..Len(seq) : seq[k] = v

\* C4: the result holds no colour equal to the target and at most
\* max_neighbors colours.
C4_NoTargetAtMostMax ==
    Returned =>
        /\ ~InSeq(call.target_color, call.selected)
        /\ Len(call.selected) <= call.max_neighbors

\* the palette holds the target, the closest candidates are not skipped and
\* the result is as long as it may be
C4_Witness ==
    /\ Returned
    /\ InSeq(call.target_color, call.colors)
    /\ call.min_distance = 0
    /\ call.max_neighbors > 0
    /\ Len(call.selected) = call.max_neighbors

\* the palette colours that differ from the target, in palette order
Candidates ==
    LET Differs(color) == color # call.target_color
    IN SelectSeq(call.colors, Differs)

\* positions min_distance .. min_distance + max_neighbors - 1 (counted from
\* 0) of a list, as far as the list has them
Window(seq) ==
    LET stop == Min(call.min_distance + call.max_neighbors, Len(seq)) IN
    IF stop <= call.min_distance THEN <<>>
    ELSE SubSeq(seq, call.min_distance + 1, stop)

\* C8 as stated: the candidates are ordered by distance, those at equal
\* distance in palette order, and the result is the window of that order.
C8_TiesInPaletteOrder ==
    Returned =>
        call.selected =
            LET ranked == SortDistances_ByDistanceOnly(
                              [k \in 1..Len(Candidates) |->
                                  [d |-> rgb_distance(call.target_color,
                                                      Candidates[k]),
                                   color |-> Candidates[k]]])
            IN Window([k \in 1..Len(ranked) |-> ranked[k].color])

\* C8 amended: the candidates are ordered by ascending distance, those at
\* equal distance by ascending (r, g, b) tuple, and the result is the window
\* of that order.
C8_TiesInColourOrder ==
    Returned =>
        /\ Len(call.distances) = Len(Candidates)
        /\ \A v \in NeighborColors :
              Count(v, [k \in 1..Len(call.distances) |->
                            call.distances[k].color])
                 = Count(v, Candidates)
        /\ \A k \in 1..Len(call.distances) :
              call.distances[k].d
                 = rgb_distance(call.target_color, call.distances[k].color)
        /\ \A k \in 1..(Len(call.distances) - 1) :
              \/ call.distances[k].d < call.distances[k + 1].d
              \/ /\ call.distances[k].d = call.distances[k + 1].d
                 /\ ~ColorLess(call.distances[k + 1].color,
                               call.distances[k].color)
        /\ call.selected =
              Window([k \in 1..Len(call.distances) |->
                         call.distances[k].color])

\* two candidates at equal distance stand in the palette against their
\* tuple order, and the result shows their order
C8_Witness ==
    /\ Returned
    /\ call.target_color = <<0, 0, 0>>
    /\ call.colors = <<<<255, 0, 0>>, <<0, 255, 0>>>>
    /\ call.selected = <<<<0, 255, 0>>, <<255, 0, 0>>>>

-----------------------------------------------------------------------------
(* Properties of create_gradient *)

\* the pixel at column x of row y of the row-major buffer
PixelAt(x, y) == pixels[y * gradient.width + x + 1]

Xs == 0..(gradient.width - 1)
Ys == 0..(gradient.height - 1)

\* C7: with two colours [C1, C2] and an axis of length >= 2, every pixel at
\* axis position 0 is C1 and every pixel at the last axis position is C2;
\* with an axis of length 1 every pixel is C1.
C7_TwoColourEnds ==
    (Returned /\ Len(gradient.colors) = 2) =>
        /\ Len(pixels) = gradient.width * gradient.height
        /\ \A x \in Xs, y \in Ys :
              /\ AxisCoord(gradient, x, y) = 0 =>
                    PixelAt(x, y) = gradient.colors[1]
              /\ (AxisLen(gradient) >= 2
                    /\ AxisCoord(gradient, x, y) = AxisLen(gradient) - 1) =>
                    PixelAt(x, y) = gradient.colors[2]
              /\ AxisLen(gradient) = 1 => PixelAt(x, y) = gradient.colors[1]

\* two different colours over an axis of three or more positions, in an
\* image that is not square
C7_Witness ==
    /\ Returned
    /\ Len(gradient.colors) = 2
    /\ gradient.colors[1] # gradient.colors[2]
    /\ AxisLen(gradient) >= 3
    /\ gradient.width # gradient.height
    /\ pixels[Len(pixels)] = gradient.colors[2]

Between(v, a, b) == (a <= v /\ v <= b) \/ (b <= v /\ v <= a)

\* C10: with k >= 2 colours and exact position arithmetic, at every pixel
\* the segment is in 0 .. k-2, local_pos is in [0, 1], every channel lies
\* between the channels of colors[segment] and colors[segment + 1] and so in
\* 0 .. 255, and pixels with the same axis coordinate have the same colour.
C10_SegmentAndChannelBounds ==
    (Returned /\ Len(gradient.colors) >= 2) =>
        /\ \A x \in Xs, y \in Ys :
              /\ Segment(gradient, x, y) \in 0..(Len(gradient.colors) - 2)
              /\ LocalPosNum(gradient, x, y) >= 0
              /\ LocalPosNum(gradient, x, y) <= PosDen(gradient)
              /\ \A c \in 1..3 :
                    /\ Between(PixelAt(x, y)[c],
                         gradient.colors[Segment(gradient, x, y) + 1][c],
                         gradient.colors[Segment(gradient, x, y) + 2][c])
                    /\ PixelAt(x, y)[c] \in 0..255
        /\ \A x1 \in Xs, x2 \in Xs, y1 \in Ys, y2 \in Ys :
              AxisCoord(gradient, x1, y1) = AxisCoord(gradient, x2, y2) =>
                  PixelAt(x1, y1) = PixelAt(x2, y2)

\* three colours across a horizontal axis, with a pixel strictly inside the
\* second segment
C10_Witness ==
    /\ Returned
    /\ Len(gradient.colors) = 3
    /\ ~gradient.vertical
    /\ gradient.height >= 2
    /\ \E x \in Xs :
          /\ Segment(gradient, x, 0) = 1
          /\ LocalPosNum(gradient, x, 0) > 0
          /\ LocalPosNum(gradient, x, 0) < PosDen(gradient)

====
